---- MODULE Spec2Model ----
(***************************************************************************)
(* Verification model of the web-asset tooling of ArduinoSMSTankAlarm:     *)
(*   - update_html.py      : the CONFIG_GENERATOR_HTML injector            *)
(*   - extract_css.py      : the style-consolidation (dedupe) pass         *)
(*   - minify_script.py    : minify_css / minify_html / update_js /        *)
(*                           minify_js                                     *)
(* Texts are TLA+ strings; Python's 0-based slicing and searching are      *)
(* modelled by Slice and Find below.                                       *)
(***************************************************************************)
EXTENDS Integers, Sequences, FiniteSets, TLC

VARIABLES
    \* ---- update_html.py (injector) ----
    file,          \* content of the host file on disk
    html_content,  \* the payload to inject (module-level string of the script)
    new_cpp_val,   \* the re-wrapped payload
    text,          \* host text as read
    start_idx,     \* result of text.find(start_marker)
    end_idx,       \* result of text.find(end_marker, start_idx)
    new_text,      \* the spliced host text
    pc,            \* position of the running script
    exit_code,     \* exit status of the invocation (-1 while running)
    stdout,        \* lines printed by the invocation
    opened_w,      \* number of times the host file was opened for writing
    run,           \* ordinal of the invocation
    file0,         \* content of the host file before the first invocation
    file1,         \* content of the host file when the current invocation began
    prev_exit,     \* exit status of the previous invocation (-1 if none)
    \* ---- extract_css.py (style consolidation) ----
    file_exists,       \* os.path.exists(FILE_PATH)
    content,           \* host text as read, then with STYLE_CSS inserted
    extracted_styles,  \* list of (name, css) found by style_pattern
    discovered,        \* extracted_styles as discovered, before the sort
    cur,               \* index of the block the rule loop is at
    raw_rules,         \* fragments of the current block still to be handled
    master_blocks,     \* the retained rules, in order
    seen_blocks,       \* the normalized signatures seen so far
    master_css,        \* the joined stylesheet
    style_var_def,     \* the STYLE_CSS definition
    new_content,       \* the rewritten host text
    \* ---- minify_script.py (compaction) ----
    css_content,   \* the stylesheet given to minify_css
    minified_css,  \* minify_css(css_content)
    html_text,     \* the markup given to minify_html
    final_html,    \* minify_html(html_text)
    reapplied,     \* the minifier applied to its own output
    js_content,    \* the script given to update_js
    updated_js,    \* update_js(js_content)
    minified_js,   \* minify_js(updated_js)
    entry,         \* index of the mapping entry the script was built around
    \* ---- replace_script.py, run beside update_html.py on one host file ----
    rs_content,    \* content: the text read, then the text with the replacements
    rs_read,       \* the text as it was read at line 2
    rs_pc,         \* position of the script
    rs_exit,       \* its exit status, -1 while it runs
    rs_last        \* TRUE iff its write came after the write of update_html.py

ivars == <<file, html_content, new_cpp_val, text, start_idx, end_idx, new_text,
           pc, exit_code, stdout, opened_w, run, file0, file1, prev_exit>>

dvars == <<file_exists, content, extracted_styles, discovered, cur, raw_rules,
           master_blocks, seen_blocks, master_css, style_var_def, new_content>>

mvars == <<css_content, minified_css, html_text, final_html, reapplied,
           js_content, updated_js, minified_js, entry>>

rvars == <<rs_content, rs_read, rs_pc, rs_exit, rs_last>>

vars == <<ivars, dvars, mvars, rvars>>

(***************************************************************************)
(* Python string primitives                                                *)
(***************************************************************************)
Min(S) == CHOOSE m \in S : \A n \in S : m <= n
Max(S) == CHOOSE m \in S : \A n \in S : m >= n

\* s[a:b] for 0 <= a, 0 <= b (Python clamps the bounds to the length)
Slice(s, a, b) ==
    LET hi == IF b > Len(s) THEN Len(s) ELSE b
    IN  IF a >= hi THEN "" ELSE SubSeq(s, a + 1, hi)

\* s[a:]
SliceFrom(s, a) == Slice(s, a, Len(s))

\* s.startswith(p)
StartsWith(s, p) == Len(p) <= Len(s) /\ Slice(s, 0, Len(p)) = p

\* the lowest position of pat in s within lo .. hi, or -1 (the range is
\* halved so that the search never nests deeper than its logarithm)
RECURSIVE FindIn(_, _, _, _)
FindIn(s, pat, lo, hi) ==
    IF lo > hi THEN -1
    ELSE IF lo = hi
         THEN (IF SubSeq(s, lo + 1, lo + Len(pat)) = pat THEN lo ELSE -1)
         ELSE LET mid == (lo + hi) \div 2
                  left == FindIn(s, pat, lo, mid)
              IN  IF left # -1 THEN left ELSE FindIn(s, pat, mid + 1, hi)

\* s.find(pat, from): the lowest position of pat at or after from, or -1
Find(s, pat, from) == FindIn(s, pat, from, Len(s) - Len(pat))

\* pat in s
Contains(s, pat) == Find(s, pat, 0) # -1

\* concatenation of a sequence of strings
RECURSIVE Concat(_)
Concat(ss) == IF ss = <<>> THEN "" ELSE Head(ss) \o Concat(Tail(ss))

\* sep.join(ss)
RECURSIVE Join(_, _)
Join(sep, ss) ==
    IF ss = <<>> THEN ""
    ELSE IF Len(ss) = 1 THEN ss[1]
    ELSE ss[1] \o sep \o Join(sep, Tail(ss))

(***************************************************************************)
(* update_html.py: the injector of the CONFIG_GENERATOR_HTML block         *)
(***************************************************************************)
\* 8000 in the source; scaled so that payloads of a few dozen characters
\* span one, two or three chunks.  It stays larger than Len(Doctype), as in
\* the source.
ChunkSize == 16
MaxSegs == 4
MaxRuns == 2

Declaration == "static const char CONFIG_GENERATOR_HTML[] PROGMEM = "
WrapperPrefix == "R\"HTML("
WrapperSuffix == ")HTML\""
Doctype == "<!DOCTYPE html>"
start_marker == "static const char CONFIG_GENERATOR_HTML[] PROGMEM = R\"HTML(<!DOCTYPE html>"
end_marker == "static const char SERIAL_MONITOR_HTML"

\* chunks = [html_content[i:i+7999] for i in range(0, len(html_content), 8000)]:
\* a slice one character shorter than the step
RECURSIVE ChunksFromShortSlice(_, _)
ChunksFromShortSlice(s, i) ==
    IF i >= Len(s) THEN <<>>
    ELSE <<Slice(s, i, i + ChunkSize - 1)>> \o ChunksFromShortSlice(s, i + ChunkSize)

\* chunks = [html_content[i:i+8000] for i in range(0, len(html_content), 8000)]
RECURSIVE ChunksFrom(_, _)
ChunksFrom(s, i) ==
    IF i >= Len(s) THEN <<>>
    ELSE <<Slice(s, i, i + ChunkSize)>> \o ChunksFrom(s, i + ChunkSize)
chunks(s) == ChunksFrom(s, 0)

\* cpp_parts = ['R"HTML(' + c + ')HTML"' for c in chunks]
cpp_parts(s) ==
    LET cs == chunks(s)
    IN  [k \in 1 .. Len(cs) |-> WrapperPrefix \o cs[k] \o WrapperSuffix]

\* new_cpp_val = " ".join(cpp_parts) + ";"
Rewrap(s) == Join(" ", cpp_parts(s)) \o ";"

\* new_text = text[:start_idx] + declaration + new_cpp_val + '\n\n' + text[end_idx:]
SpliceOneNewline(t, s, e, val) ==
    Slice(t, 0, s) \o Declaration \o val \o "\n" \o SliceFrom(t, e)
SpliceDropsTail(t, s, e, val) ==
    Slice(t, 0, s) \o Declaration \o val \o "\n\n" \o SliceFrom(t, e + 1)
Splice(t, s, e, val) ==
    Slice(t, 0, s) \o Declaration \o val \o "\n\n" \o SliceFrom(t, e)

\* f.write(data) on a file opened with mode 'w': the data is written at
\* offset 0 through the script's own descriptor; bytes that another writer
\* has put beyond the data since the truncation stay in the file
WriteAppends(f, data) == f \o data
WriteAt(f, data) == data \o (IF Len(f) > Len(data) THEN SliceFrom(f, Len(data)) ELSE "")

\* the variables of replace_script.py while it is not run
ReplaceIdle ==
    /\ rs_content = ""
    /\ rs_read = ""
    /\ rs_pc = "idle"
    /\ rs_exit = -1
    /\ rs_last = FALSE

\* the variables of minify_script.py while another script is modelled
MinifyIdle ==
    /\ css_content = ""
    /\ minified_css = ""
    /\ html_text = ""
    /\ final_html = ""
    /\ reapplied = ""
    /\ js_content = ""
    /\ updated_js = ""
    /\ minified_js = ""
    /\ entry = 0

\* the variables of extract_css.py while another script is modelled
DedupeIdle ==
    /\ file_exists = TRUE
    /\ content = ""
    /\ extracted_styles = <<>>
    /\ discovered = <<>>
    /\ cur = 0
    /\ raw_rules = <<>>
    /\ master_blocks = <<>>
    /\ seen_blocks = {}
    /\ master_css = ""
    /\ style_var_def = ""
    /\ new_content = ""

\* ---- inputs: host texts and payloads ----
HostSegs == { start_marker, ")HTML\";\n\n", ")HTML\";\n", end_marker, "xy" }

RECURSIVE TextsOf(_)
TextsOf(n) ==
    IF n = 0 THEN {""}
    ELSE LET shorter == TextsOf(n - 1)
         IN  shorter \cup { t \o g : t \in shorter, g \in HostSegs }
HostTexts == TextsOf(MaxSegs)

\* the payload of the block as it stands in host text t: the text between
\* the wrapper prefix of the start marker and the next wrapper suffix
HasBlockPayload(t) ==
    /\ Find(t, start_marker, 0) # -1
    /\ Find(t, WrapperSuffix, Find(t, start_marker, 0) + Len(Declaration) + Len(WrapperPrefix)) # -1
BlockPayload(t) ==
    LET p == Find(t, start_marker, 0) + Len(Declaration) + Len(WrapperPrefix)
    IN  Slice(t, p, Find(t, WrapperSuffix, p))

Payloads ==
    { "",
      "<html>",
      Doctype,
      Doctype \o "x",
      Doctype \o "xy",
      Doctype \o "<html>0123456789</html>" }

PayloadsFor(t) ==
    Payloads \cup (IF HasBlockPayload(t) THEN {BlockPayload(t)} ELSE {})

InitInject ==
    /\ file \in HostTexts
    /\ html_content \in PayloadsFor(file)
    /\ new_cpp_val = ""
    /\ text = ""
    /\ start_idx = -1
    /\ end_idx = -1
    /\ new_text = ""
    /\ pc = "chunk"
    /\ exit_code = -1
    /\ stdout = <<>>
    /\ opened_w = 0
    /\ run = 1
    /\ file0 = file
    /\ file1 = file
    /\ prev_exit = -1
    /\ DedupeIdle
    /\ MinifyIdle
    /\ ReplaceIdle

\* lines 241-243
Chunk ==
    /\ pc = "chunk"
    /\ new_cpp_val' = Rewrap(html_content)
    /\ pc' = "read"
    /\ UNCHANGED <<file, html_content, text, start_idx, end_idx, new_text,
                   exit_code, stdout, opened_w, run, file0, file1, prev_exit>>
    /\ UNCHANGED <<dvars, mvars, rvars>>

\* lines 246-247
ReadHost ==
    /\ pc = "read"
    /\ text' = file
    /\ pc' = "find_start"
    /\ UNCHANGED <<file, html_content, new_cpp_val, start_idx, end_idx, new_text,
                   exit_code, stdout, opened_w, run, file0, file1, prev_exit>>
    /\ UNCHANGED <<dvars, mvars, rvars>>

\* lines 255-258 with the second occurrence of the start marker preferred,
\* used to test C19
FindStartSecond ==
    /\ pc = "find_start"
    /\ start_idx' =
          LET a == Find(text, start_marker, 0)
              b == IF a = -1 THEN -1 ELSE Find(text, start_marker, a + 1)
          IN  IF b # -1 THEN b ELSE a
    /\ IF start_idx' = -1
       THEN /\ stdout' = Append(stdout, "Error: Could not find start marker")
            /\ exit_code' = 1
            /\ pc' = "exited"
       ELSE /\ pc' = "find_end"
            /\ UNCHANGED <<stdout, exit_code>>
    /\ UNCHANGED <<file, html_content, new_cpp_val, text, end_idx, new_text,
                   opened_w, run, file0, file1, prev_exit>>
    /\ UNCHANGED <<dvars, mvars, rvars>>

\* lines 255-258
FindStart ==
    /\ pc = "find_start"
    /\ start_idx' = Find(text, start_marker, 0)
    /\ IF start_idx' = -1
       THEN /\ stdout' = Append(stdout, "Error: Could not find start marker")
            /\ exit_code' = 1
            /\ pc' = "exited"
       ELSE /\ pc' = "find_end"
            /\ UNCHANGED <<stdout, exit_code>>
    /\ UNCHANGED <<file, html_content, new_cpp_val, text, end_idx, new_text,
                   opened_w, run, file0, file1, prev_exit>>
    /\ UNCHANGED <<dvars, mvars, rvars>>

\* lines 260-263
FindEndFromZero ==
    /\ pc = "find_end"
    /\ end_idx' = Find(text, end_marker, 0)
    /\ IF end_idx' = -1
       THEN /\ stdout' = Append(stdout, "Error: Could not find end marker")
            /\ exit_code' = 1
            /\ pc' = "exited"
       ELSE /\ pc' = "splice"
            /\ UNCHANGED <<stdout, exit_code>>
    /\ UNCHANGED <<file, html_content, new_cpp_val, text, start_idx, new_text,
                   opened_w, run, file0, file1, prev_exit>>
    /\ UNCHANGED <<dvars, mvars, rvars>>
FindEnd ==
    /\ pc = "find_end"
    /\ end_idx' = Find(text, end_marker, start_idx)
    /\ IF end_idx' = -1
       THEN /\ stdout' = Append(stdout, "Error: Could not find end marker")
            /\ exit_code' = 1
            /\ pc' = "exited"
       ELSE /\ pc' = "splice"
            /\ UNCHANGED <<stdout, exit_code>>
    /\ UNCHANGED <<file, html_content, new_cpp_val, text, start_idx, new_text,
                   opened_w, run, file0, file1, prev_exit>>
    /\ UNCHANGED <<dvars, mvars, rvars>>

\* line 269
BuildNewText ==
    /\ pc = "splice"
    /\ new_text' = Splice(text, start_idx, end_idx, new_cpp_val)
    /\ pc' = "open_w"
    /\ UNCHANGED <<file, html_content, new_cpp_val, text, start_idx, end_idx,
                   exit_code, stdout, opened_w, run, file0, file1, prev_exit>>
    /\ UNCHANGED <<dvars, mvars, rvars>>

\* line 271: open(file_path, 'w') truncates the file
OpenForWrite ==
    /\ pc = "open_w"
    /\ file' = ""
    /\ opened_w' = opened_w + 1
    /\ pc' = "write"
    /\ UNCHANGED <<html_content, new_cpp_val, text, start_idx, end_idx, new_text,
                   exit_code, stdout, run, file0, file1, prev_exit>>
    /\ UNCHANGED <<dvars, mvars, rvars>>

\* line 272 and the close of the with-block
WriteHost ==
    /\ pc = "write"
    /\ file' = WriteAt(file, new_text)
    /\ pc' = "print_ok"
    /\ UNCHANGED <<html_content, new_cpp_val, text, start_idx, end_idx, new_text,
                   exit_code, stdout, opened_w, run, file0, file1, prev_exit>>
    /\ UNCHANGED <<dvars, mvars, rvars>>

\* line 274 and the normal end of the script
PrintSuccess ==
    /\ pc = "print_ok"
    /\ stdout' = Append(stdout, "Successfully updated CONFIG_GENERATOR_HTML")
    /\ exit_code' = 0
    /\ pc' = "exited"
    /\ UNCHANGED <<file, html_content, new_cpp_val, text, start_idx, end_idx,
                   new_text, opened_w, run, file0, file1, prev_exit>>
    /\ UNCHANGED <<dvars, mvars, rvars>>

\* the script is invoked again on the file the previous invocation left
Reinvoke ==
    /\ pc = "exited"
    /\ run < MaxRuns
    /\ run' = run + 1
    /\ file1' = file
    /\ prev_exit' = exit_code
    /\ new_cpp_val' = ""
    /\ text' = ""
    /\ start_idx' = -1
    /\ end_idx' = -1
    /\ new_text' = ""
    /\ pc' = "chunk"
    /\ exit_code' = -1
    /\ stdout' = <<>>
    /\ opened_w' = 0
    /\ UNCHANGED <<file, html_content, file0>>
    /\ UNCHANGED <<dvars, mvars, rvars>>

NextInject ==
    \/ Chunk
    \/ ReadHost
    \/ FindStart
    \/ FindEnd
    \/ BuildNewText
    \/ OpenForWrite
    \/ WriteHost
    \/ PrintSuccess
    \/ Reinvoke

SpecInject == InitInject /\ [][NextInject]_vars

(***************************************************************************)
(* Properties of the injector                                              *)
(***************************************************************************)
\* the positions at which pat occurs in t
Positions(t, pat) ==
    { i \in 0 .. (Len(t) - Len(pat)) : SubSeq(t, i + 1, i + Len(pat)) = pat }
\* the least position of pat in t that is at least from (Len(t) + 1 if none)
FirstAtOrAfter(t, pat, from) ==
    LET P == { i \in Positions(t, pat) : i >= from }
    IN  IF P = {} THEN Len(t) + 1 ELSE CHOOSE i \in P : \A j \in P : i <= j
\* the located range of t: start is the first start marker, end the first
\* sibling marker at or after start
LocatedStart(t) == FirstAtOrAfter(t, start_marker, 0)
LocatedEnd(t) == FirstAtOrAfter(t, end_marker, LocatedStart(t))
\* the block is located in t: the start marker is present and the sibling
\* marker occurs at or after its first occurrence
Located(t) == LocatedStart(t) <= Len(t) /\ LocatedEnd(t) <= Len(t)

\* the first invocation has ended successfully after injecting the payload
\* the block held before it
RoundTripDone ==
    /\ run = 1
    /\ pc = "exited"
    /\ exit_code = 0
    /\ HasBlockPayload(file0)
    /\ html_content = BlockPayload(file0)

\* the located range of t is already in the form the injector emits: the
\* declaration, the payload as one literal of at most ChunkSize characters,
\* ';' and exactly two newlines right before the sibling marker
CanonicalBlock(t) ==
    /\ Located(t)
    /\ Len(BlockPayload(t)) <= ChunkSize
    /\ Slice(t, LocatedStart(t), LocatedEnd(t)) =
          Declaration \o WrapperPrefix \o BlockPayload(t) \o WrapperSuffix \o ";" \o "\n\n"

C3_Frame ==
    (pc = "exited" /\ exit_code = 0) =>
        LET start == LocatedStart(file1)
            end == LocatedEnd(file1)
            tail == Len(file1) - end
        IN  /\ start <= Len(file1) /\ end <= Len(file1)
            /\ Slice(file, 0, start) = Slice(file1, 0, start)
            /\ Len(file) >= tail
            /\ SliceFrom(file, Len(file) - tail) = SliceFrom(file1, end)
            /\ Len(file) = start + Len(Declaration) + Len(new_cpp_val) + 2 + tail

C3_Witness ==
    /\ pc = "exited"
    /\ exit_code = 0
    /\ LocatedStart(file1) > 0
    /\ LocatedEnd(file1) + Len(end_marker) < Len(file1)
    /\ file # file1

\* C4: when the start marker is absent, or the end marker does not occur at
\* or after it, the invocation never opens the host file for writing, the file
\* keeps the content that was read, and the invocation ends with exit status 1
\* after printing one diagnostic line.
C4_NotFound ==
    LET untouched ==
            /\ opened_w = 0
            /\ file = file1
            /\ pc \in {"chunk", "read", "find_start", "find_end", "exited"}
            /\ pc = "exited" =>
                  /\ exit_code = 1
                  /\ stdout \in { <<"Error: Could not find start marker">>,
                                  <<"Error: Could not find end marker">> }
    IN  ~untouched => Located(file1)

C4_Witness ==
    /\ pc = "exited"
    /\ exit_code = 1
    /\ Positions(file1, start_marker) # {}
    /\ Positions(file1, end_marker) # {}
    /\ ~Located(file1)

(***************************************************************************)
(* More Python string primitives                                           *)
(***************************************************************************)
\* characters that \s and str.strip() treat as whitespace
Whitespace == {" ", "\t", "\n", "\r", "\f"}
IsSpace(c) == c \in Whitespace

\* characters matched by \w
WordChars ==
    {"A","B","C","D","E","F","G","H","I","J","K","L","M","N","O","P","Q","R","S","T",
     "U","V","W","X","Y","Z","a","b","c","d","e","f","g","h","i","j","k","l","m","n",
     "o","p","q","r","s","t","u","v","w","x","y","z","0","1","2","3","4","5","6","7",
     "8","9","_"}
IsWord(s) == \A i \in 1 .. Len(s) : SubSeq(s, i, i) \in WordChars

\* s.strip()
RECURSIVE LStrip(_)
LStrip(s) ==
    IF s # "" /\ IsSpace(SubSeq(s, 1, 1)) THEN LStrip(SubSeq(s, 2, Len(s))) ELSE s
RECURSIVE RStrip(_)
RStrip(s) ==
    IF s # "" /\ IsSpace(SubSeq(s, Len(s), Len(s)))
    THEN RStrip(SubSeq(s, 1, Len(s) - 1)) ELSE s
Strip(s) == RStrip(LStrip(s))

\* re.sub(r'\s', '', s)
RECURSIVE RemoveWs(_)
RemoveWs(s) ==
    IF s = "" THEN ""
    ELSE IF IsSpace(SubSeq(s, 1, 1)) THEN RemoveWs(SubSeq(s, 2, Len(s)))
    ELSE SubSeq(s, 1, 1) \o RemoveWs(SubSeq(s, 2, Len(s)))

\* s.split(sep), sep non-empty
RECURSIVE Split(_, _)
Split(s, sep) ==
    LET i == Find(s, sep, 0)
    IN  IF i = -1 THEN <<s>>
        ELSE <<Slice(s, 0, i)>> \o Split(SliceFrom(s, i + Len(sep)), sep)

\* s.replace(old, new), old non-empty; also re.sub of a literal pattern
RECURSIVE Replace(_, _, _)
Replace(s, old, new) ==
    LET i == Find(s, old, 0)
    IN  IF i = -1 THEN s
        ELSE Slice(s, 0, i) \o new \o Replace(SliceFrom(s, i + Len(old)), old, new)

(***************************************************************************)
(* extract_css.py: the style-consolidation pass (process_file)             *)
(***************************************************************************)
MaxBlocks == 2

priority_pages == <<"CLIENT_CONSOLE", "DASHBOARD", "CONTACTS_MANAGER", "SERVER_SETTINGS", "HISTORICAL_DATA">>

\* priority_pages.index(name), 0-based
PriorityIndex(name) ==
    (CHOOSE k \in 1 .. Len(priority_pages) :
        /\ priority_pages[k] = name
        /\ \A j \in 1 .. (k - 1) : priority_pages[j] # name) - 1

\* sort_key(item)
NoPriorityKey == 999
sort_key(item) ==
    IF \E k \in 1 .. Len(priority_pages) : priority_pages[k] = item.name
    THEN PriorityIndex(item.name)
    ELSE NoPriorityKey

\* list.sort(key=sort_key): a stable sort, as an insertion sort that puts
\* each item after the items whose key is not greater
RECURSIVE InsertBeforeEqual(_, _)
InsertBeforeEqual(sorted, x) ==
    IF sorted = <<>> THEN <<x>>
    ELSE IF sort_key(Head(sorted)) < sort_key(x)
         THEN <<Head(sorted)>> \o InsertBeforeEqual(Tail(sorted), x)
         ELSE <<x>> \o sorted
RECURSIVE InsertSorted(_, _)
InsertSorted(sorted, x) ==
    IF sorted = <<>> THEN <<x>>
    ELSE IF sort_key(Head(sorted)) <= sort_key(x)
         THEN <<Head(sorted)>> \o InsertSorted(Tail(sorted), x)
         ELSE <<x>> \o sorted
RECURSIVE SortFrom(_, _)
SortFrom(sorted, rest) ==
    IF rest = <<>> THEN sorted
    ELSE SortFrom(InsertSorted(sorted, Head(rest)), Tail(rest))
SortByPriority(items) == SortFrom(<<>>, items)

\* style_pattern:
\*   (static const char (\w+)_HTML\[\] PROGMEM = R"HTML\(.*?<style>(.*?)</style>)
\* with re.DOTALL
DeclHead == "static const char "
DeclTail == "_HTML[] PROGMEM = R\"HTML("
StyleOpen == "<style>"
StyleClose == "</style>"

\* the match of style_pattern that starts at position p of t, if any:
\* [ok, name, css, end]; p is a position of DeclHead
MatchAt(t, p) ==
    LET n == p + Len(DeclHead)
        q == Find(t, DeclTail, n)
        o == IF q = -1 THEN -1 ELSE Find(t, StyleOpen, q + Len(DeclTail))
        c == IF o = -1 THEN -1 ELSE Find(t, StyleClose, o + Len(StyleOpen))
    IN  IF q > n /\ IsWord(Slice(t, n, q)) /\ c # -1
        THEN [ok |-> TRUE, start |-> p, name |-> Slice(t, n, q),
              css |-> Slice(t, o + Len(StyleOpen), c), end |-> c + Len(StyleClose)]
        ELSE [ok |-> FALSE, start |-> p, name |-> "", css |-> "", end |-> p]

\* style_pattern.finditer(t), searching from position from: the successive
\* leftmost non-overlapping matches
RECURSIVE FindIter(_, _)
FindIter(t, from) ==
    LET p == Find(t, DeclHead, from)
        m == MatchAt(t, p)
    IN  IF p = -1 THEN <<>>
        ELSE IF m.ok THEN <<m>> \o FindIter(t, m.end)
        ELSE FindIter(t, p + 1)

\* lines 30-33
ExtractedStyles(t) ==
    LET matches == FindIter(t, 0)
    IN  [k \in 1 .. Len(matches) |-> [name |-> matches[k].name, css |-> matches[k].css]]

\* a signature that looks at the selector only (the text before the first
\* opening brace), used to test C14
SignatureSelectorOnly(rule) ==
    LET b == Find(rule, "{", 0)
    IN  RemoveWs(IF b = -1 THEN rule ELSE Slice(rule, 0, b))

\* norm = re.sub(r'\s', '', rule)
SignatureVerbatim(rule) == rule
Signature(rule) == RemoveWs(rule)

UiComment == "/* UI STANDARDIZATION */"

\* line 67 and line 69
JoinMaster(blocks) == Replace(Join("\n", blocks), UiComment, "")

\* line 72
StyleVarDef(css) == "static const char STYLE_CSS[] PROGMEM = R\"CSS(" \o css \o ")CSS\";\n\n"

InsertionPoint == "static const char SERVER_SETTINGS_HTML[]"
link_tag == "<link rel=\"stylesheet\" href=\"/style.css\">"

\* replacer(match), lines 84-97
replacer(full) ==
    LET start == Find(full, StyleOpen, 0)
        end == Find(full, StyleClose, 0) + 8
    IN  Slice(full, 0, start) \o link_tag \o SliceFrom(full, end)

\* style_pattern.sub(replacer, t), from position from
RECURSIVE SubStyles(_, _)
SubStyles(t, from) ==
    LET p == Find(t, DeclHead, from)
        m == MatchAt(t, p)
    IN  IF p = -1 THEN SliceFrom(t, from)
        ELSE IF m.ok
             THEN Slice(t, from, p) \o replacer(Slice(t, p, m.end)) \o SubStyles(t, m.end)
             ELSE Slice(t, from, p + 1) \o SubStyles(t, p + 1)

serve_file_sig == "static void serveFile(EthernetClient &client, const char* htmlContent) {"
serve_css_func == "\nstatic void serveCss(EthernetClient &client) {\n  size_t cssLen = strlen_P(STYLE_CSS);\n  client.println(F(\"HTTP/1.1 200 OK\"));\n  client.println(F(\"Content-Type: text/css\"));\n  client.print(F(\"Content-Length: \"));\n  client.println(cssLen);\n  client.println(F(\"Cache-Control: public, max-age=31536000\")); // Cache for 1 year\n  client.println();\n\n  const size_t bufSize = 128;\n  uint8_t buffer[bufSize];\n  size_t remaining = cssLen;\n  const char* ptr = STYLE_CSS;\n\n  while (remaining > 0) {\n    size_t chunk = (remaining < bufSize) ? remaining : bufSize;\n    for (size_t i = 0; i < chunk; i++) {\n        buffer[i] = pgm_read_byte_near(ptr++);\n    }\n    client.write(buffer, chunk);\n    remaining -= chunk;\n  }\n}\n"
route_sig == "if (method == \"GET\" && path.startsWith(\"/login\")) {"
new_route_block == "if (method == \"GET\" && path == \"/style.css\") {\n    serveCss(client);\n  } else " \o route_sig

\* ---- inputs: host files made of HTML blocks ----
BlockNames == {"DASHBOARD", "SERVER_SETTINGS", "LOGIN"}

CssInputs ==
    { ".a{color:red}.b{color:blue}",
      " .a { color:red } ",
      "/* UI STANDARDIZATION */.a{color:red}",
      ".a{color:blue}",
      "@media{.a{color:red}}" }

BlockBodies == {"<p>"} \cup { StyleOpen \o css \o StyleClose \o "<p>" : css \in CssInputs }

HtmlBlock(name, body) == DeclHead \o name \o DeclTail \o body \o ")HTML\";\n"

HtmlBlocks == { HtmlBlock(name, body) : name \in BlockNames, body \in BlockBodies }

RECURSIVE BlockTexts(_)
BlockTexts(n) ==
    IF n = 0 THEN {""}
    ELSE LET shorter == BlockTexts(n - 1)
         IN  shorter \cup { t \o b : t \in shorter, b \in HtmlBlocks }

\* the rest of the host file: with or without the serveFile function and
\* the route dispatcher
Epilogues ==
    { "",
      serve_file_sig \o "\n" \o route_sig \o "\n" }

\* a block without a style region between two blocks that have one
SkippedBlockText ==
    HtmlBlock("SERVER_SETTINGS", StyleOpen \o ".a{color:red}.b{color:blue}" \o StyleClose \o "<p>") \o
    HtmlBlock("DASHBOARD", "<p>") \o
    HtmlBlock("LOGIN", StyleOpen \o ".a{color:blue}" \o StyleClose \o "<p>")

\* a block with two inline style regions
TwoStyleBody ==
    StyleOpen \o ".a{color:red}" \o StyleClose \o "<p>" \o
    StyleOpen \o ".b{color:blue}" \o StyleClose

DedupeHosts ==
    { t \o e : t \in BlockTexts(MaxBlocks), e \in Epilogues }
        \cup { HtmlBlock("SERVER_SETTINGS", TwoStyleBody) \o e : e \in Epilogues }
        \cup { SkippedBlockText \o e : e \in Epilogues }

\* the variables of update_html.py while another script is modelled
InjectIdle ==
    /\ html_content = ""
    /\ new_cpp_val = ""
    /\ text = ""
    /\ start_idx = -1
    /\ end_idx = -1
    /\ new_text = ""
    /\ run = 1
    /\ prev_exit = -1

ionly == <<html_content, new_cpp_val, text, start_idx, end_idx, new_text, run,
           file0, prev_exit, mvars, rvars>>

InitDedupe ==
    /\ file_exists \in BOOLEAN
    /\ file \in (IF file_exists THEN DedupeHosts ELSE {""})
    /\ file0 = file
    /\ file1 = file
    /\ pc = "check_exists"
    /\ exit_code = -1
    /\ stdout = <<>>
    /\ opened_w = 0
    /\ content = ""
    /\ extracted_styles = <<>>
    /\ discovered = <<>>
    /\ cur = 0
    /\ raw_rules = <<>>
    /\ master_blocks = <<>>
    /\ seen_blocks = {}
    /\ master_css = ""
    /\ style_var_def = ""
    /\ new_content = ""
    /\ InjectIdle
    /\ MinifyIdle
    /\ ReplaceIdle

\* lines 15-17
CheckExists ==
    /\ pc = "check_exists"
    /\ IF file_exists
       THEN /\ pc' = "read_content"
            /\ UNCHANGED <<stdout, exit_code>>
       ELSE /\ stdout' = Append(stdout, "Error: File not found at FILE_PATH")
            /\ exit_code' = 0
            /\ pc' = "returned"
    /\ UNCHANGED <<file, opened_w, file1, ionly, dvars>>

\* lines 19-20
ReadContent ==
    /\ pc = "read_content"
    /\ content' = file
    /\ pc' = "extract"
    /\ UNCHANGED <<file, exit_code, stdout, opened_w, file1, ionly, file_exists,
                   extracted_styles, discovered, cur, raw_rules, master_blocks,
                   seen_blocks, master_css, style_var_def, new_content>>

\* lines 26-33
ExtractStyles ==
    /\ pc = "extract"
    /\ extracted_styles' = ExtractedStyles(content)
    /\ discovered' = extracted_styles'
    /\ pc' = "sort"
    /\ UNCHANGED <<file, exit_code, stdout, opened_w, file1, ionly, file_exists,
                   content, cur, raw_rules, master_blocks, seen_blocks, master_css,
                   style_var_def, new_content>>

\* lines 39-49
SortStyles ==
    /\ pc = "sort"
    /\ master_blocks' = <<>>
    /\ seen_blocks' = {}
    /\ extracted_styles' = SortByPriority(extracted_styles)
    /\ cur' = 1
    /\ pc' = "next_block"
    /\ UNCHANGED <<file, exit_code, stdout, opened_w, file1, ionly, file_exists,
                   content, discovered, raw_rules, master_css, style_var_def,
                   new_content>>

\* lines 51-54: the outer loop takes the next block and splits its stylesheet
NextBlock ==
    /\ pc = "next_block"
    /\ IF cur <= Len(extracted_styles)
       THEN /\ raw_rules' = Split(extracted_styles[cur].css, "}")
            /\ pc' = "rule"
       ELSE /\ raw_rules' = <<>>
            /\ pc' = "join"
    /\ UNCHANGED <<file, exit_code, stdout, opened_w, file1, ionly, file_exists,
                   content, extracted_styles, discovered, cur, master_blocks,
                   seen_blocks, master_css, style_var_def, new_content>>

\* lines 55-65: one iteration of the inner loop
HandleRule ==
    /\ pc = "rule"
    /\ IF raw_rules = <<>>
       THEN /\ cur' = cur + 1
            /\ pc' = "next_block"
            /\ UNCHANGED <<raw_rules, master_blocks, seen_blocks>>
       ELSE LET stripped == Strip(Head(raw_rules))
                rule == stripped \o "}"
                norm == Signature(rule)
            IN  /\ raw_rules' = Tail(raw_rules)
                /\ IF stripped # "" /\ norm \notin seen_blocks
                   THEN /\ seen_blocks' = seen_blocks \cup {norm}
                        /\ master_blocks' = Append(master_blocks, rule)
                   ELSE UNCHANGED <<seen_blocks, master_blocks>>
                /\ UNCHANGED <<cur, pc>>
    /\ UNCHANGED <<file, exit_code, stdout, opened_w, file1, ionly, file_exists,
                   content, extracted_styles, discovered, master_css, style_var_def,
                   new_content>>

\* lines 67-72
JoinRules ==
    /\ pc = "join"
    /\ master_css' = JoinMaster(master_blocks)
    /\ style_var_def' = StyleVarDef(master_css')
    /\ pc' = "insert"
    /\ UNCHANGED <<file, exit_code, stdout, opened_w, file1, ionly, file_exists,
                   content, extracted_styles, discovered, cur, raw_rules,
                   master_blocks, seen_blocks, new_content>>

\* lines 75-79
InsertStyleVar ==
    /\ pc = "insert"
    /\ IF Contains(content, InsertionPoint)
       THEN /\ content' = Replace(content, InsertionPoint, style_var_def \o InsertionPoint)
            /\ pc' = "rewrite"
            /\ UNCHANGED <<stdout, exit_code>>
       ELSE /\ stdout' = Append(stdout, "Could not find insertion point for STYLE_CSS")
            /\ exit_code' = 0
            /\ pc' = "returned"
            /\ UNCHANGED content
    /\ UNCHANGED <<file, opened_w, file1, ionly, file_exists, extracted_styles,
                   discovered, cur, raw_rules, master_blocks, seen_blocks,
                   master_css, style_var_def, new_content>>

\* line 99
RewriteBlocks ==
    /\ pc = "rewrite"
    /\ new_content' = SubStyles(content, 0)
    /\ pc' = "serve_css"
    /\ UNCHANGED <<file, exit_code, stdout, opened_w, file1, ionly, file_exists,
                   content, extracted_styles, discovered, cur, raw_rules,
                   master_blocks, seen_blocks, master_css, style_var_def>>

\* lines 103-132
AddServeCss ==
    /\ pc = "serve_css"
    /\ new_content' =
          IF Contains(new_content, serve_file_sig)
          THEN Replace(new_content, serve_file_sig, serve_css_func \o "\n" \o serve_file_sig)
          ELSE new_content
    /\ pc' = "route"
    /\ UNCHANGED <<file, exit_code, stdout, opened_w, file1, ionly, file_exists,
                   content, extracted_styles, discovered, cur, raw_rules,
                   master_blocks, seen_blocks, master_css, style_var_def>>

\* lines 136-142
AddRoute ==
    /\ pc = "route"
    /\ IF Contains(new_content, route_sig)
       THEN /\ new_content' = Replace(new_content, route_sig, new_route_block)
            /\ UNCHANGED stdout
       ELSE /\ stdout' = Append(stdout, "Could not find route dispatcher")
            /\ UNCHANGED new_content
    /\ pc' = "compare"
    /\ UNCHANGED <<file, exit_code, opened_w, file1, ionly, file_exists,
                   content, extracted_styles, discovered, cur, raw_rules,
                   master_blocks, seen_blocks, master_css, style_var_def>>

\* lines 145, 149-150
CompareContent ==
    /\ pc = "compare"
    /\ IF new_content # content
       THEN /\ pc' = "open_host"
            /\ UNCHANGED <<stdout, exit_code>>
       ELSE /\ stdout' = Append(stdout, "No changes needed.")
            /\ exit_code' = 0
            /\ pc' = "returned"
    /\ UNCHANGED <<file, opened_w, file1, ionly, dvars>>

\* line 146: open(FILE_PATH, 'w') truncates the file
OpenHost ==
    /\ pc = "open_host"
    /\ file' = ""
    /\ opened_w' = opened_w + 1
    /\ pc' = "write_content"
    /\ UNCHANGED <<exit_code, stdout, file1, ionly, dvars>>

\* lines 147-148 and the return of process_file
WriteContent ==
    /\ pc = "write_content"
    /\ file' = WriteAt(file, new_content)
    /\ stdout' = Append(stdout, "Success: CSS extracted and routes updated.")
    /\ exit_code' = 0
    /\ pc' = "returned"
    /\ UNCHANGED <<opened_w, file1, ionly, dvars>>

\* variants of lines 75-76 and 145 used to test C11: the insertion adds
\* nothing, and the comparison before the write is skipped
InsertNothing ==
    /\ pc = "insert"
    /\ pc' = "rewrite"
    /\ UNCHANGED <<file, exit_code, stdout, opened_w, file1, ionly, dvars>>

WriteAlways ==
    /\ pc = "compare"
    /\ pc' = "open_host"
    /\ UNCHANGED <<file, exit_code, stdout, opened_w, file1, ionly, dvars>>

NextDedupeUnguarded ==
    \/ CheckExists
    \/ ReadContent
    \/ ExtractStyles
    \/ SortStyles
    \/ NextBlock
    \/ HandleRule
    \/ JoinRules
    \/ InsertNothing
    \/ RewriteBlocks
    \/ AddServeCss
    \/ AddRoute
    \/ WriteAlways
    \/ OpenHost
    \/ WriteContent

NextDedupe ==
    \/ CheckExists
    \/ ReadContent
    \/ ExtractStyles
    \/ SortStyles
    \/ NextBlock
    \/ HandleRule
    \/ JoinRules
    \/ InsertStyleVar
    \/ RewriteBlocks
    \/ AddServeCss
    \/ AddRoute
    \/ CompareContent
    \/ OpenHost
    \/ WriteContent

SpecDedupe == InitDedupe /\ [][NextDedupe]_vars

(***************************************************************************)
(* Properties of the style-consolidation pass                              *)
(***************************************************************************)
\* the rule loop has just ended
RulesDone == pc = "join"
\* the shared stylesheet has been built
StylesheetBuilt ==
    pc \in {"insert", "rewrite", "serve_css", "route", "compare",
            "open_host", "write_content", "returned"} /\ content # ""

\* the non-empty candidate rules of one stylesheet, each with its closing
\* brace re-appended
RECURSIVE CandidatesOfFragments(_)
CandidatesOfFragments(frags) ==
    IF frags = <<>> THEN <<>>
    ELSE IF Strip(Head(frags)) = "" THEN CandidatesOfFragments(Tail(frags))
    ELSE <<Strip(Head(frags)) \o "}">> \o CandidatesOfFragments(Tail(frags))
CandidatesOf(css) == CandidatesOfFragments(Split(css, "}"))

\* the candidate rules of a list of blocks, in scan order
RECURSIVE AllCandidates(_)
AllCandidates(styles) ==
    IF styles = <<>> THEN <<>>
    ELSE CandidatesOf(Head(styles).css) \o AllCandidates(Tail(styles))

\* two rules have the same normalized signature
SameSignature(a, b) == RemoveWs(a) = RemoveWs(b)

\* the candidates of cs that no earlier candidate equals in signature
FirstSeen(cs) ==
    LET keep == { i \in 1 .. Len(cs) : \A j \in 1 .. (i - 1) : ~SameSignature(cs[j], cs[i]) }
        nth[k \in 0 .. Cardinality(keep)] ==
            IF k = 0 THEN 0
            ELSE CHOOSE i \in keep : i > nth[k - 1] /\ \A j \in keep : j > nth[k - 1] => i <= j
    IN  [k \in 1 .. Cardinality(keep) |-> cs[nth[k]]]

\* C5: no two rules of the stylesheet emitted into STYLE_CSS have the same
\* normalized signature.
C5_EmittedRulesUnique ==
    StylesheetBuilt =>
        LET rules == CandidatesOf(master_css)
        IN  \A i, j \in 1 .. Len(rules) : i # j => ~SameSignature(rules[i], rules[j])

\* C6: scanning the candidates of all blocks in sorted order, a candidate is
\* dropped iff an earlier candidate has the same signature; the others are
\* appended in their original form, so the signatures of the master list are
\* those of all candidates.
C6_DedupRetention ==
    RulesDone =>
        LET cs == AllCandidates(extracted_styles)
        IN  /\ master_blocks = FirstSeen(cs)
            /\ { RemoveWs(master_blocks[k]) : k \in 1 .. Len(master_blocks) }
                  = { RemoveWs(cs[k]) : k \in 1 .. Len(cs) }
            /\ seen_blocks = { RemoveWs(cs[k]) : k \in 1 .. Len(cs) }

\* scenario B of the specification, with a whitespace variant of a rule
C6_Witness ==
    /\ RulesDone
    /\ Len(extracted_styles) = 2
    /\ extracted_styles[1].css = " .a { color:red } "
    /\ extracted_styles[2].css = ".a{color:red}.b{color:blue}"
    /\ master_blocks = <<".a { color:red}", ".b{color:blue}">>

\* the key the priority list gives a block name
PriorityKey(name) ==
    IF name = "CLIENT_CONSOLE" THEN 0
    ELSE IF name = "DASHBOARD" THEN 1
    ELSE IF name = "CONTACTS_MANAGER" THEN 2
    ELSE IF name = "SERVER_SETTINGS" THEN 3
    ELSE IF name = "HISTORICAL_DATA" THEN 4
    ELSE 5

\* sorted is input stably sorted by priority: a rearrangement of input in
\* which keys never decrease and equal keys keep their input order
StablySorted(input, sorted) ==
    /\ Len(sorted) = Len(input)
    /\ \E perm \in [1 .. Len(input) -> 1 .. Len(input)] :
          /\ \A i, j \in 1 .. Len(input) : i # j => perm[i] # perm[j]
          /\ \A i \in 1 .. Len(input) : sorted[i] = input[perm[i]]
          /\ \A i, j \in 1 .. Len(input) :
                i < j => \/ PriorityKey(input[perm[i]].name) < PriorityKey(input[perm[j]].name)
                         \/ /\ PriorityKey(input[perm[i]].name) = PriorityKey(input[perm[j]].name)
                            /\ perm[i] < perm[j]

\* C7: the blocks are scanned in stable priority order (priority names in
\* list order, then the others in discovery order) and the master list is the
\* first-seen rules in that order.
C7_PriorityOrder ==
    RulesDone =>
        /\ StablySorted(discovered, extracted_styles)
        /\ master_blocks = FirstSeen(AllCandidates(extracted_styles))

\* a run in which the sort moved a priority block in front of another block
C7_Witness ==
    /\ RulesDone
    /\ Len(discovered) = 2
    /\ discovered[1].name = "LOGIN"
    /\ discovered[2].name = "DASHBOARD"
    /\ extracted_styles = <<discovered[2], discovered[1]>>
    /\ master_blocks = <<".a{color:blue}", ".a { color:red}">>

(***************************************************************************)
(* minify_script.py: minify_css, minify_html, update_js, minify_js         *)
(***************************************************************************)
MaxCssLen == 3
MaxHtmlToks == 5

\* length of the run of whitespace at the start of s
RECURSIVE SpaceRun(_)
SpaceRun(s) ==
    IF s # "" /\ IsSpace(SubSeq(s, 1, 1)) THEN 1 + SpaceRun(SubSeq(s, 2, Len(s))) ELSE 0

\* re.sub(open .*? close, '', s, flags=re.DOTALL) for literal delimiters
RECURSIVE RemoveDelimited(_, _, _)
RemoveDelimited(s, open, close) ==
    LET i == Find(s, open, 0)
        j == Find(s, close, i + Len(open))
    IN  IF i = -1 \/ j = -1 THEN s
        ELSE Slice(s, 0, i) \o RemoveDelimited(SliceFrom(s, j + Len(close)), open, close)

\* re.sub(r'\s+', ' ', s): every maximal run of whitespace becomes one
\* space.  Computed by halves: a run cut by the middle leaves a space on
\* both sides of the cut, and one of the two is dropped.
RECURSIVE CollapseSpace(_)
CollapseSpace(s) ==
    IF Len(s) <= 1 THEN (IF IsSpace(s) THEN " " ELSE s)
    ELSE LET m == Len(s) \div 2
             l == CollapseSpace(SubSeq(s, 1, m))
             r == CollapseSpace(SubSeq(s, m + 1, Len(s)))
         IN  IF SubSeq(l, Len(l), Len(l)) = " " /\ SubSeq(r, 1, 1) = " "
             THEN l \o SubSeq(r, 2, Len(r))
             ELSE l \o r

\* re.sub(r'\s*([P])\s*', r'\1', s) for a set P of punctuation characters:
\* every run of whitespace next to a character of P is dropped.  Computed
\* by halves: the whitespace at the cut is dropped when a character of P
\* stands on either side of it.
RECURSIVE TrimAround(_, _)
TrimAround(s, punct) ==
    IF Len(s) <= 1 THEN s
    ELSE LET m == Len(s) \div 2
             l == TrimAround(SubSeq(s, 1, m), punct)
             r == TrimAround(SubSeq(s, m + 1, Len(s)), punct)
             lt == RStrip(l)
             rt == LStrip(r)
         IN  IF \/ lt # "" /\ SubSeq(lt, Len(lt), Len(lt)) \in punct
                \/ rt # "" /\ SubSeq(rt, 1, 1) \in punct
             THEN lt \o rt
             ELSE l \o r

CssPunct == {":", ";", "{", "}"}

\* minify_css without line 801, used to test C15
minify_css_untrimmed(css) ==
    Strip(Replace(CollapseSpace(RemoveDelimited(css, "/*", "*/")), ";}", "}"))

\* minify_css, lines 798-803
minify_css(css) ==
    Strip(Replace(TrimAround(CollapseSpace(RemoveDelimited(css, "/*", "*/")), CssPunct),
                  ";}", "}"))

\* re.sub(r'>\s+<', '><', s)
RECURSIVE JoinTags(_)
JoinTags(s) ==
    IF s = "" THEN ""
    ELSE LET rest == SubSeq(s, 2, Len(s))
             k == SpaceRun(rest)
         IN  IF SubSeq(s, 1, 1) = ">" /\ k > 0 /\ Slice(rest, k, k + 1) = "<"
             THEN "><" \o JoinTags(SliceFrom(rest, k + 1))
             ELSE SubSeq(s, 1, 1) \o JoinTags(rest)

\* re.sub(r'<!--.*-->', '', html, flags=re.DOTALL): from the first opening
\* delimiter to the last closing delimiter
RemoveGreedy(s, open, close) ==
    LET i == Find(s, open, 0)
        P == { j \in Positions(s, close) : j >= i + Len(open) }
        j == CHOOSE x \in P : \A y \in P : y <= x
    IN  IF i = -1 \/ P = {} THEN s
        ELSE Slice(s, 0, i) \o SliceFrom(s, j + Len(close))
minify_html_greedy(html) ==
    Strip(CollapseSpace(JoinTags(RemoveGreedy(html, "<!--", "-->"))))

\* minify_html, lines 805-809
minify_html(html) ==
    Strip(CollapseSpace(JoinTags(RemoveDelimited(html, "<!--", "-->"))))

\* a table whose first replacement text is the long form of its fifth entry
RenameMappingCascading ==
    <<
       <<"client.tanks", "client.tank">>,
       <<"client.client", "client.c">>,
       <<"client.site", "client.s">>,
       <<"client.label", "client.n">>,
       <<"client.tank", "client.k">>,
       <<"client.levelInches", "client.l">>,
       <<"client.percent", "client.p">>,
       <<"client.alarm", "client.a">>,
       <<"client.alarmType", "client.at">>,
       <<"client.lastUpdate", "client.u">>,
       <<"client.vinVoltage", "client.v">>,
       <<"tank.label", "tank.n">>,
       <<"tank.tank", "tank.k">>,
       <<"tank.levelInches", "tank.l">>,
       <<"tank.percent", "tank.p">>,
       <<"tank.alarm", "tank.a">>,
       <<"tank.alarmType", "tank.at">>,
       <<"tank.lastUpdate", "tank.u">>,
       <<"data.clients", "data.cs">>,
       <<"data.server", "data.srv">>,
       <<"serverInfo.name", "serverInfo.n">>,
       <<"data.serverUid", "data.si">>,
       <<"serverInfo.clientFleet", "serverInfo.cf">>,
       <<"data.nextDailyEmailEpoch", "data.nde">>,
       <<"data.lastSyncEpoch", "data.lse">>,
       <<"serverInfo.paused", "serverInfo.ps">>,
       <<"serverInfo.pinConfigured", "serverInfo.pc">>,
       <<"body: JSON.stringify({ client: clientUid })", "body: JSON.stringify({ c: clientUid })">>,
       <<"body: JSON.stringify({ paused: targetPaused, pin: state.pin || '' })", "body: JSON.stringify({ ps: targetPaused, pin: state.pin || '' })">>,
       <<"state.paused = !!data.paused", "state.paused = !!data.ps">> >>

\* the replacements of update_js in the order of lines 813-846
RenameMapping ==
    <<
       <<"client.tanks", "client.ts">>,
       <<"client.client", "client.c">>,
       <<"client.site", "client.s">>,
       <<"client.label", "client.n">>,
       <<"client.tank", "client.k">>,
       <<"client.levelInches", "client.l">>,
       <<"client.percent", "client.p">>,
       <<"client.alarm", "client.a">>,
       <<"client.alarmType", "client.at">>,
       <<"client.lastUpdate", "client.u">>,
       <<"client.vinVoltage", "client.v">>,
       <<"tank.label", "tank.n">>,
       <<"tank.tank", "tank.k">>,
       <<"tank.levelInches", "tank.l">>,
       <<"tank.percent", "tank.p">>,
       <<"tank.alarm", "tank.a">>,
       <<"tank.alarmType", "tank.at">>,
       <<"tank.lastUpdate", "tank.u">>,
       <<"data.clients", "data.cs">>,
       <<"data.server", "data.srv">>,
       <<"serverInfo.name", "serverInfo.n">>,
       <<"data.serverUid", "data.si">>,
       <<"serverInfo.clientFleet", "serverInfo.cf">>,
       <<"data.nextDailyEmailEpoch", "data.nde">>,
       <<"data.lastSyncEpoch", "data.lse">>,
       <<"serverInfo.paused", "serverInfo.ps">>,
       <<"serverInfo.pinConfigured", "serverInfo.pc">>,
       <<"body: JSON.stringify({ client: clientUid })", "body: JSON.stringify({ c: clientUid })">>,
       <<"body: JSON.stringify({ paused: targetPaused, pin: state.pin || '' })", "body: JSON.stringify({ ps: targetPaused, pin: state.pin || '' })">>,
       <<"state.paused = !!data.paused", "state.paused = !!data.ps">> >>

\* update_js, lines 811-848: the replacements from entry k on
RECURSIVE ApplyFrom(_, _)
ApplyFrom(js, k) ==
    IF k > Len(RenameMapping) THEN js
    ELSE LET replaced == Replace(js, RenameMapping[k][1], RenameMapping[k][2])
         IN  IF replaced = js THEN ApplyFrom(js, k + 1) ELSE ApplyFrom(replaced, k + 1)
update_js(js) == ApplyFrom(js, 1)

\* re.sub(r'//.*', '', s): '.' stops at a line break
RECURSIVE RemoveLineComments(_)
RemoveLineComments(s) ==
    LET i == Find(s, "//", 0)
        n == Find(s, "\n", i)
    IN  IF i = -1 THEN s
        ELSE IF n = -1 THEN Slice(s, 0, i)
        ELSE Slice(s, 0, i) \o RemoveLineComments(SliceFrom(s, n))

JsPunct == {"=", "+", "-", "*", "/", "%", "&", "|", "<", ">", "!", "?", ":", ";", ",",
            "{", "}", "(", ")", "[", "]"}

\* minify_js, lines 850-855
minify_js(js) ==
    Strip(TrimAround(CollapseSpace(RemoveDelimited(RemoveLineComments(js), "/*", "*/")),
                     JsPunct))

\* ---- inputs ----
RECURSIVE StringsOver(_, _)
StringsOver(alphabet, n) ==
    IF n = 0 THEN {""}
    ELSE LET shorter == StringsOver(alphabet, n - 1)
         IN  shorter \cup { t \o c : t \in shorter, c \in alphabet }

CssAlphabet == {"a", " ", "\n", ";", ":", "{", "}", "/", "*"}
CssTexts == StringsOver(CssAlphabet, MaxCssLen) \cup {"  .a  {  color : red ;  }  "}

HtmlTokens == {"<!--", "-->", "<!-", "-", "> \n<", " a "}
HtmlTexts == StringsOver(HtmlTokens, MaxHtmlToks)

\* a mapped long form surrounded by compactable whitespace
JsBefore == {" ", "  x =\n  "}
JsAfter == {" ", " ;\n"}

fvars == <<file, html_content, new_cpp_val, text, start_idx, end_idx, new_text,
           exit_code, stdout, opened_w, run, file0, file1, prev_exit>>

FilesIdle ==
    /\ file = ""
    /\ file0 = ""
    /\ file1 = ""
    /\ exit_code = -1
    /\ stdout = <<>>
    /\ opened_w = 0
    /\ InjectIdle
    /\ DedupeIdle
    /\ ReplaceIdle

\* ---- minify_css applied, then applied to its own output ----
InitMinifyCss ==
    /\ css_content \in CssTexts
    /\ pc = "minify_css"
    /\ minified_css = ""
    /\ reapplied = ""
    /\ html_text = ""
    /\ final_html = ""
    /\ js_content = ""
    /\ updated_js = ""
    /\ minified_js = ""
    /\ entry = 0
    /\ FilesIdle

\* line 871
MinifyCss ==
    /\ pc = "minify_css"
    /\ minified_css' = minify_css(css_content)
    /\ pc' = "minify_css_again"
    /\ UNCHANGED <<css_content, html_text, final_html, reapplied, js_content,
                   updated_js, minified_js, entry, fvars, dvars, rvars>>

MinifyCssAgain ==
    /\ pc = "minify_css_again"
    /\ reapplied' = minify_css(minified_css)
    /\ pc' = "done"
    /\ UNCHANGED <<css_content, minified_css, html_text, final_html, js_content,
                   updated_js, minified_js, entry, fvars, dvars, rvars>>

NextMinifyCss ==
    \/ MinifyCss
    \/ MinifyCssAgain

SpecMinifyCss == InitMinifyCss /\ [][NextMinifyCss]_vars

\* ---- minify_html applied, then applied to its own output ----
InitMinifyHtml ==
    /\ html_text \in HtmlTexts
    /\ pc = "minify_html"
    /\ final_html = ""
    /\ reapplied = ""
    /\ css_content = ""
    /\ minified_css = ""
    /\ js_content = ""
    /\ updated_js = ""
    /\ minified_js = ""
    /\ entry = 0
    /\ FilesIdle

\* line 876
MinifyHtml ==
    /\ pc = "minify_html"
    /\ final_html' = minify_html(html_text)
    /\ pc' = "minify_html_again"
    /\ UNCHANGED <<css_content, minified_css, html_text, reapplied, js_content,
                   updated_js, minified_js, entry, fvars, dvars, rvars>>

MinifyHtmlAgain ==
    /\ pc = "minify_html_again"
    /\ reapplied' = minify_html(final_html)
    /\ pc' = "done"
    /\ UNCHANGED <<css_content, minified_css, html_text, final_html, js_content,
                   updated_js, minified_js, entry, fvars, dvars, rvars>>

NextMinifyHtml ==
    \/ MinifyHtml
    \/ MinifyHtmlAgain

SpecMinifyHtml == InitMinifyHtml /\ [][NextMinifyHtml]_vars

\* ---- the script pipeline: update_js, then minify_js ----
InitScript ==
    /\ entry \in 1 .. Len(RenameMapping)
    /\ js_content \in { b \o RenameMapping[entry][1] \o a : b \in JsBefore, a \in JsAfter }
    /\ pc = "update_js"
    /\ updated_js = ""
    /\ minified_js = ""
    /\ css_content = ""
    /\ minified_css = ""
    /\ html_text = ""
    /\ final_html = ""
    /\ reapplied = ""
    /\ FilesIdle

\* line 872
UpdateJs ==
    /\ pc = "update_js"
    /\ updated_js' = update_js(js_content)
    /\ pc' = "minify_js"
    /\ UNCHANGED <<css_content, minified_css, html_text, final_html, reapplied,
                   js_content, minified_js, entry, fvars, dvars, rvars>>

\* line 873
MinifyJs ==
    /\ pc = "minify_js"
    /\ minified_js' = minify_js(updated_js)
    /\ pc' = "done"
    /\ UNCHANGED <<css_content, minified_css, html_text, final_html, reapplied,
                   js_content, updated_js, entry, fvars, dvars, rvars>>

NextScript ==
    \/ UpdateJs
    \/ MinifyJs

SpecScript == InitScript /\ [][NextScript]_vars

(***************************************************************************)
(* Properties of the compaction functions                                  *)
(***************************************************************************)
\* C8: minify_css(minify_css(x)) = minify_css(x) for every input x.
C8_MinifyCssIdempotent == pc = "done" => reapplied = minified_css

\* C9: minify_html(minify_html(x)) = minify_html(x) for every input x.
C9_MinifyHtmlIdempotent == pc = "done" => reapplied = final_html

\* C10: for every entry of the mapping, a script holding its long form
\* between compactable whitespace is compacted to text that contains the
\* short form (as written, or as minify_js writes it) and no long form.
C10_RenameBeforeMinify ==
    pc = "done" =>
        /\ \/ Contains(minified_js, RenameMapping[entry][2])
           \/ Contains(minified_js, minify_js(RenameMapping[entry][2]))
        /\ ~Contains(minified_js, RenameMapping[entry][1])

\* the pass has opened the host file for writing
HostWritten == pc = "write_content" \/ (pc = "returned" /\ opened_w > 0)

WriteFails ==
    /\ pc = "write"
    /\ \E k \in {0, Len(new_text) \div 2} : file' = Slice(new_text, 0, k)
    /\ exit_code' = 1
    /\ pc' = "exited"
    /\ UNCHANGED <<html_content, new_cpp_val, text, start_idx, end_idx, new_text,
                   stdout, opened_w, run, file0, file1, prev_exit>>
    /\ UNCHANGED <<dvars, mvars, rvars>>

NextInjectIO ==
    \/ NextInject
    \/ WriteFails

SpecInjectIO == InitInject /\ [][NextInjectIO]_vars

\* C12: in every run the host file is opened for writing at most once and
\* only after the markers were found and the new text was built, and at
\* every point of the run, a failed write included, the host file holds
\* either the complete text that was read or the complete new text.
C12_WholeFileWrite ==
    /\ opened_w <= 1
    /\ opened_w = 1 => (pc \in {"write", "print_ok", "exited"} /\ start_idx # -1 /\ end_idx # -1)
    /\ file = file1 \/ (opened_w = 1 /\ file = new_text)

\* the pass has ended after writing the host file
PassWrote == pc = "returned" /\ opened_w = 1

\* the positions right after the declarations 'static const char <NAME>_HTML[]
\* PROGMEM = R"HTML(' of t, and the block text that starts at such a position
\* (up to the end of the raw literal)
BlockStarts(t) == { p + Len(DeclTail) : p \in Positions(t, DeclTail) }
BlockAt(t, p) ==
    LET e == FirstAtOrAfter(t, ")HTML\"", p)
    IN  Slice(t, p, IF e > Len(t) THEN Len(t) ELSE e)
\* the number of blocks of t that start before p
BlockRank(t, p) == Cardinality({ q \in BlockStarts(t) : q < p })

\* C13: after the pass, every '<NAME>_HTML' block that had an inline style
\* region holds no inline style region and holds the stylesheet link.
C13_BlocksRewritten ==
    PassWrote =>
        \A p \in BlockStarts(file0) :
            Contains(BlockAt(file0, p), StyleOpen) =>
                \E q \in BlockStarts(file) :
                    /\ BlockRank(file, q) = BlockRank(file0, p)
                    /\ ~Contains(BlockAt(file, q), StyleOpen)
                    /\ Contains(BlockAt(file, q), link_tag)

\* the selector of a rule: its text before the first opening brace, without
\* whitespace
Selector(rule) ==
    LET P == Positions(rule, "{")
    IN  RemoveWs(IF P = {} THEN rule
                 ELSE SubSeq(rule, 1, CHOOSE i \in P : \A j \in P : i <= j))
\* two rules that give the same selector different bodies
Conflict(a, b) == Selector(a) = Selector(b) /\ ~SameSignature(a, b)
\* the index of the first rule of the sequence rs with the signature of r
\* (0 if there is none)
FirstIndex(rs, r) ==
    LET I == { i \in 1 .. Len(rs) : SameSignature(rs[i], r) }
    IN  IF I = {} THEN 0 ELSE CHOOSE i \in I : \A j \in I : i <= j

\* C14 (as stated): when the same selector occurs with different bodies,
\* only the rule of the higher-priority block is retained, so no two
\* retained rules have the same selector.
C14_PriorityWins ==
    RulesDone =>
        \A i, j \in 1 .. Len(master_blocks) :
            i # j => Selector(master_blocks[i]) # Selector(master_blocks[j])

\* C14 (amended): when the same selector occurs with different bodies, both
\* rules are retained, in the order in which they are first met in the
\* priority order of the blocks, and no conflict warning is printed.
C14_ConflictingRulesKept ==
    RulesDone =>
        LET cs == AllCandidates(extracted_styles)
        IN  \A i, j \in 1 .. Len(cs) :
                Conflict(cs[i], cs[j]) =>
                    LET a == FirstIndex(master_blocks, cs[i])
                        b == FirstIndex(master_blocks, cs[j])
                    IN  /\ a # 0 /\ b # 0 /\ a # b
                        /\ a < b <=> FirstIndex(cs, cs[i]) < FirstIndex(cs, cs[j])
                        /\ stdout = <<>>

C14_Witness ==
    /\ RulesDone
    /\ Len(extracted_styles) = 2
    /\ extracted_styles[1].name = "DASHBOARD"
    /\ extracted_styles[2].name = "LOGIN"
    /\ master_blocks = <<".a{color:red}", ".b{color:blue}", ".a{color:blue}">>

\* the characters of s, by position
CharAt(s, i) == SubSeq(s, i, i)
StructuralPunct == {":", ";", "{", "}"}
NoEdgeSpace(s) == s = "" \/ (~IsSpace(CharAt(s, 1)) /\ ~IsSpace(CharAt(s, Len(s))))
NoSpaceRun(s) == \A i \in 1 .. Len(s) - 1 : ~(IsSpace(CharAt(s, i)) /\ IsSpace(CharAt(s, i + 1)))
NoSpaceNearPunct(s) ==
    \A i \in 1 .. Len(s) - 1 :
        /\ ~(IsSpace(CharAt(s, i)) /\ CharAt(s, i + 1) \in StructuralPunct)
        /\ ~(CharAt(s, i) \in StructuralPunct /\ IsSpace(CharAt(s, i + 1)))
MinifiedForm(s) == NoEdgeSpace(s) /\ NoSpaceRun(s) /\ NoSpaceNearPunct(s)

StyleCssDecl == "static const char STYLE_CSS[] PROGMEM = R\"CSS("
ServeCssDecl == "static void serveCss(EthernetClient &client) {"
StyleRouteTest == "path == \"/style.css\""

\* C16: whenever the pass writes the host file, the written text holds all
\* of its edits (the STYLE_CSS definition, the serveCss function, the
\* '/style.css' route, and the link in place of every first style region);
\* when the pass does not write, the host file is exactly as read.
C16_AllOrNothing ==
    pc = "returned" =>
        IF opened_w = 1
        THEN /\ Contains(file, StyleCssDecl)
             /\ Contains(file, ServeCssDecl)
             /\ Contains(file, StyleRouteTest)
             /\ Contains(file0, StyleOpen) => Contains(file, link_tag)
        ELSE file = file0

(***************************************************************************)
(* extract_css.py run again on the host file it has left                   *)
(***************************************************************************)
RerunDedupe ==
    /\ pc = "returned"
    /\ run < MaxRuns
    /\ run' = run + 1
    /\ file1' = file
    /\ prev_exit' = exit_code
    /\ pc' = "check_exists"
    /\ exit_code' = -1
    /\ stdout' = <<>>
    /\ opened_w' = 0
    /\ content' = ""
    /\ extracted_styles' = <<>>
    /\ discovered' = <<>>
    /\ cur' = 0
    /\ raw_rules' = <<>>
    /\ master_blocks' = <<>>
    /\ seen_blocks' = {}
    /\ master_css' = ""
    /\ style_var_def' = ""
    /\ new_content' = ""
    /\ UNCHANGED <<file, file0, file_exists, html_content, new_cpp_val, text,
                   start_idx, end_idx, new_text, mvars, rvars>>

NextDedupeTwice ==
    \/ NextDedupe
    \/ RerunDedupe

SpecDedupeTwice == InitDedupe /\ [][NextDedupeTwice]_vars

\* C17: a second run of the pass on the host text that a first run has
\* written leaves the host text unchanged.
C17_CompactionIdempotent ==
    (run = 2 /\ pc = "returned" /\ file1 # file0) => file = file1

\* C18: when the host file does not exist or holds no insertion point, the
\* pass ends with a non-zero exit status and without writing the host file.
C18_NotFoundFails ==
    (pc = "returned" /\ (~file_exists \/ Positions(file0, InsertionPoint) = {})) =>
        (exit_code # 0 /\ opened_w = 0 /\ file = file0)

\* the locator of update_html.py has succeeded on the text it read
LocatorSucceeded ==
    \/ pc \in {"splice", "open_w", "write", "print_ok"}
    \/ pc = "exited" /\ exit_code = 0

\* C19: whenever the locator succeeds, start is the first occurrence of the
\* start marker, end is the first occurrence of the end marker at or after
\* start, and start < end <= length of the host text.
C19_LocatedRange ==
    LocatorSucceeded =>
        /\ start_idx \in Positions(text, start_marker)
        /\ \A p \in Positions(text, start_marker) : start_idx <= p
        /\ end_idx \in Positions(text, end_marker)
        /\ \A p \in Positions(text, end_marker) : p >= start_idx => end_idx <= p
        /\ start_idx < end_idx
        /\ end_idx <= Len(text)

C19_Witness ==
    /\ pc = "splice"
    /\ Cardinality(Positions(text, start_marker)) >= 2
    /\ Cardinality(Positions(text, end_marker)) >= 2
    /\ \E p \in Positions(text, end_marker) : p < start_idx

(***************************************************************************)
(* Two writers of one host file: update_html.py and replace_script.py      *)
(***************************************************************************)
\* replace_script.py, lines 5-19
replacements ==
    << <<".tankCount", ".monitorCount">>,
       <<".tanks[", ".monitors[">>,
       <<"gTankState[", "gMonitorState[">>,
       <<"cfg.sensorType", "cfg.sensorInterface">>,
       <<"cfg.tankNumber", "cfg.monitorNumber">>,
       <<"cfg.rpmPin", "cfg.pulsePin">>,
       <<"cfg.pulsesPerRevolution", "cfg.pulsesPerUnit">>,
       <<"cfg.rpmSampleDurationMs", "cfg.pulseSampleDurationMs">>,
       <<"cfg.rpmAccumulatedMode", "cfg.pulseAccumulatedMode">>,
       <<"SENSOR_HALL_EFFECT_RPM", "SENSOR_PULSE">>,
       <<"TankConfig", "MonitorConfig">>,
       <<"TankRuntime", "MonitorRuntime">>,
       <<"getTankHeight", "getMonitorHeight">> >>

\* lines 21-22: the replacements from entry k on
RECURSIVE ReplaceFrom(_, _)
ReplaceFrom(t, k) ==
    IF k > Len(replacements) THEN t
    ELSE LET replaced == Replace(t, replacements[k][1], replacements[k][2])
         IN  IF replaced = t THEN ReplaceFrom(t, k + 1) ELSE ReplaceFrom(replaced, k + 1)

\* host files that hold the block of update_html.py and text that
\* replace_script.py rewrites
RaceTails == {" cfg.rpmPin", " SENSOR_HALL_EFFECT_RPM", " TankConfig"}
RaceHosts ==
    { start_marker \o body \o end_marker \o tail :
        body \in {")HTML\";\n\n", "<html>0123456789</html>)HTML\";\n"}, tail \in RaceTails }

InitRace ==
    /\ file \in RaceHosts
    /\ html_content \in Payloads
    /\ new_cpp_val = ""
    /\ text = ""
    /\ start_idx = -1
    /\ end_idx = -1
    /\ new_text = ""
    /\ pc = "chunk"
    /\ exit_code = -1
    /\ stdout = <<>>
    /\ opened_w = 0
    /\ run = 1
    /\ file0 = file
    /\ file1 = file
    /\ prev_exit = -1
    /\ rs_content = ""
    /\ rs_read = ""
    /\ rs_pc = "read"
    /\ rs_exit = -1
    /\ rs_last = FALSE
    /\ DedupeIdle
    /\ MinifyIdle

\* replace_script.py, line 2
RsRead ==
    /\ rs_pc = "read"
    /\ rs_content' = file
    /\ rs_read' = file
    /\ rs_pc' = "replace"
    /\ UNCHANGED <<rs_exit, rs_last, ivars, dvars, mvars>>

\* lines 21-22
RsReplace ==
    /\ rs_pc = "replace"
    /\ rs_content' = ReplaceFrom(rs_content, 1)
    /\ rs_pc' = "open_w"
    /\ UNCHANGED <<rs_read, rs_exit, rs_last, ivars, dvars, mvars>>

\* line 24: open(filepath, 'w') truncates the file
RsOpen ==
    /\ rs_pc = "open_w"
    /\ file' = ""
    /\ rs_pc' = "write"
    /\ UNCHANGED <<rs_content, rs_read, rs_exit, rs_last, html_content, new_cpp_val,
                   text, start_idx, end_idx, new_text, pc, exit_code, stdout,
                   opened_w, run, file0, file1, prev_exit, dvars, mvars>>

\* line 24: .write(content) and the close of the file object
RsWrite ==
    /\ rs_pc = "write"
    /\ file' = WriteAt(file, rs_content)
    /\ rs_last' = (pc \in {"print_ok", "exited"})
    /\ rs_pc' = "print"
    /\ UNCHANGED <<rs_content, rs_read, rs_exit, html_content, new_cpp_val,
                   text, start_idx, end_idx, new_text, pc, exit_code, stdout,
                   opened_w, run, file0, file1, prev_exit, dvars, mvars>>

\* line 25 and the normal end of the script
RsPrint ==
    /\ rs_pc = "print"
    /\ stdout' = Append(stdout, "Done")
    /\ rs_exit' = 0
    /\ rs_pc' = "exited"
    /\ UNCHANGED <<rs_content, rs_read, rs_last, file, html_content, new_cpp_val,
                   text, start_idx, end_idx, new_text, pc, exit_code,
                   opened_w, run, file0, file1, prev_exit, dvars, mvars>>

NextRace ==
    \/ Chunk
    \/ ReadHost
    \/ FindStart
    \/ FindEnd
    \/ BuildNewText
    \/ OpenForWrite
    \/ WriteHost
    \/ PrintSuccess
    \/ RsRead
    \/ RsReplace
    \/ RsOpen
    \/ RsWrite
    \/ RsPrint

SpecRace == InitRace /\ [][NextRace]_vars

\* both scripts have ended, and both had read the host file before either
\* opened it for writing (each read the original text)
BothDone == pc = "exited" /\ rs_pc = "exited"
BothReadOriginal == text = file0 /\ rs_read = file0
\* the output of the script that wrote last, and of the other one
LastOutput == IF rs_last THEN rs_content ELSE new_text
OtherOutput == IF rs_last THEN new_text ELSE rs_content

RenameBefore == {" ", "x", "my_"}
RenameAfter == {" ", "Name", "_x"}

InitRename ==
    /\ entry \in 1 .. Len(RenameMapping)
    /\ js_content \in { b \o RenameMapping[entry][1] \o a : b \in RenameBefore, a \in RenameAfter }
    /\ pc = "update_js"
    /\ updated_js = ""
    /\ minified_js = ""
    /\ css_content = ""
    /\ minified_css = ""
    /\ html_text = ""
    /\ final_html = ""
    /\ reapplied = ""
    /\ FilesIdle

SpecRename == InitRename /\ [][NextScript]_vars

\* the long and the short form of entry k
LongForm(k) == RenameMapping[k][1]
ShortForm(k) == RenameMapping[k][2]
ProperPrefix(a, b) == Len(a) < Len(b) /\ SubSeq(b, 1, Len(a)) = a

\* the entries in longest-match-first order (longer long forms first, the
\* table order among equal lengths)
RECURSIVE LongestFirst(_)
LongestFirst(S) ==
    IF S = {} THEN <<>>
    ELSE LET i == CHOOSE i \in S :
                    \A j \in S : \/ Len(LongForm(i)) > Len(LongForm(j))
                                 \/ Len(LongForm(i)) = Len(LongForm(j)) /\ i <= j
         IN  <<i>> \o LongestFirst(S \ {i})
\* the rename pass with the entries applied in the order ord
RECURSIVE RenameInOrder(_, _)
RenameInOrder(js, ord) ==
    IF ord = <<>> THEN js
    ELSE LET replaced == Replace(js, LongForm(Head(ord)), ShortForm(Head(ord)))
         IN  IF replaced = js THEN RenameInOrder(js, Tail(ord))
             ELSE RenameInOrder(replaced, Tail(ord))

\* C21: no long form of the table is a proper prefix of another long form,
\* and the rename pass gives what longest-match-first order gives.
C21_PrefixFree ==
    /\ \A i, j \in 1 .. Len(RenameMapping) : ~ProperPrefix(LongForm(i), LongForm(j))
    /\ pc # "update_js" =>
          updated_js = RenameInOrder(js_content, LongestFirst(1 .. Len(RenameMapping)))

\* the occurrence of length n at position i (0-based) of s is a whole token:
\* it is not joined to an identifier character on either side
WholeAt(s, i, n) ==
    /\ ~(i > 0 /\ IsWord(CharAt(s, i)) /\ IsWord(CharAt(s, i + 1)))
    /\ ~(i + n < Len(s) /\ IsWord(CharAt(s, i + n)) /\ IsWord(CharAt(s, i + n + 1)))
\* s with the whole-token occurrences of old at or after from replaced by new
RECURSIVE ReplaceWholeFrom(_, _, _, _)
ReplaceWholeFrom(s, old, new, from) ==
    LET i == Find(s, old, from)
    IN  IF i = -1 THEN s
        ELSE IF WholeAt(s, i, Len(old))
             THEN ReplaceWholeFrom(Slice(s, 0, i) \o new \o SliceFrom(s, i + Len(old)),
                                   old, new, i + Len(new))
             ELSE ReplaceWholeFrom(s, old, new, i + 1)
\* the table applied in its order as whole-token substitution
RECURSIVE RenameWholeFrom(_, _)
RenameWholeFrom(js, k) ==
    IF k > Len(RenameMapping) THEN js
    ELSE LET replaced == ReplaceWholeFrom(js, LongForm(k), ShortForm(k), 0)
         IN  IF replaced = js THEN RenameWholeFrom(js, k + 1)
             ELSE RenameWholeFrom(replaced, k + 1)

\* C22: the rename pass replaces a long form only where it is a whole token;
\* an occurrence joined to an identifier character before or after it is
\* left as it was.
C22_WholeToken ==
    pc # "update_js" => updated_js = RenameWholeFrom(js_content, 1)

\* the first entry of the table whose long form occurs in js (0 when none)
FirstMatching(js) ==
    LET S == { k \in 1 .. Len(RenameMapping) : Contains(js, LongForm(k)) }
    IN  IF S = {} THEN 0 ELSE CHOOSE k \in S : \A m \in S : k <= m

\* C23: in the order of the table no replacement text contains the long form
\* of a later entry, the later entries leave every replacement text as it
\* is, and the text written by the first matching entry is in the output.
C23_NoCascade ==
    /\ \A i, j \in 1 .. Len(RenameMapping) : i < j => ~Contains(ShortForm(i), LongForm(j))
    /\ \A i \in 1 .. Len(RenameMapping) : ApplyFrom(ShortForm(i), i + 1) = ShortForm(i)
    /\ pc # "update_js" /\ FirstMatching(js_content) # 0 =>
          Contains(updated_js, ShortForm(FirstMatching(js_content)))
\* an entry that has later entries has rewritten its long form
C23_Witness ==
    /\ pc = "done"
    /\ entry < Len(RenameMapping)
    /\ js_content = " " \o LongForm(entry) \o " "
    /\ updated_js = " " \o ShortForm(entry) \o " "

\* C24: the output of minify_css holds no semicolon immediately followed by
\* a closing brace.
C24_NoSemicolonBeforeBrace ==
    pc # "minify_css" => ~Contains(minified_css, ";}")

(***************************************************************************)
(* minify_js on scripts that hold comments                                 *)
(***************************************************************************)
MaxJsToks == 4
JsTokens == {"/*", "*/", "//", "a", "\n", " "}
JsTexts == StringsOver(JsTokens, MaxJsToks)

InitComments ==
    /\ entry = 1
    /\ js_content \in JsTexts
    /\ pc = "update_js"
    /\ updated_js = ""
    /\ minified_js = ""
    /\ css_content = ""
    /\ minified_css = ""
    /\ html_text = ""
    /\ final_html = ""
    /\ reapplied = ""
    /\ FilesIdle

SpecComments == InitComments /\ [][NextScript]_vars

\* s without its comments, read from left to right as a script is read: a
\* '//' outside a comment opens a line comment that ends before the line
\* break, a '/*' outside a comment opens a block comment that ends with
\* the next '*/' (a '/*' that is never closed opens nothing)
RECURSIVE StripComments(_)
StripComments(s) ==
    IF s = "" THEN ""
    ELSE IF StartsWith(s, "//")
         THEN LET n == Find(s, "\n", 0)
              IN  IF n = -1 THEN "" ELSE StripComments(SliceFrom(s, n))
    ELSE IF StartsWith(s, "/*") /\ Find(s, "*/", 2) # -1
         THEN StripComments(SliceFrom(s, Find(s, "*/", 2) + 2))
    ELSE SubSeq(s, 1, 1) \o StripComments(SubSeq(s, 2, Len(s)))

\* C25: the output of minify_js is the input with every line comment and
\* every block comment removed and the whitespace compacted; nothing of a
\* comment, its delimiters included, is left in it.
C25_CommentsStripped ==
    pc = "done" =>
        minified_js = Strip(TrimAround(CollapseSpace(StripComments(updated_js)), JsPunct))

\* the name declared for the block whose text starts at position p of t
BlockName(t, p) ==
    LET q == p - Len(DeclTail)
        D == { d \in Positions(t, DeclHead) : d + Len(DeclHead) <= q }
        d == CHOOSE x \in D : \A y \in D : y <= x
    IN  Slice(t, d + Len(DeclHead), q)
\* the first inline style region of every block of t that has one, under
\* the name of the block that holds it, in file order from position from
RECURSIVE OwnStylesFrom(_, _)
OwnStylesFrom(t, from) ==
    LET p == FirstAtOrAfter(t, DeclTail, from) + Len(DeclTail)
        body == BlockAt(t, p)
        o == Find(body, StyleOpen, 0)
        c == Find(body, StyleClose, o + Len(StyleOpen))
    IN  IF p > Len(t) THEN <<>>
        ELSE (IF o # -1 /\ c # -1
              THEN <<[name |-> BlockName(t, p), css |-> Slice(body, o + Len(StyleOpen), c)]>>
              ELSE <<>>) \o OwnStylesFrom(t, p)
OwnStyles(t) == OwnStylesFrom(t, 0)

\* C26: a block without an inline style region takes no part: every
\* extracted stylesheet goes under the name of the block that holds it, and
\* the rules of the master list and their order are those of the blocks
\* that have a style region.
C26_SkippedBlocksInert ==
    RulesDone =>
        /\ discovered = OwnStyles(file0)
        /\ master_blocks = FirstSeen(AllCandidates(SortByPriority(OwnStyles(file0))))

\* s without its '<!--...-->' comments, read from left to right
RECURSIVE WithoutComments(_)
WithoutComments(s) ==
    IF s = "" THEN ""
    ELSE IF StartsWith(s, "<!--") /\ Find(s, "-->", 4) # -1
         THEN WithoutComments(SliceFrom(s, Find(s, "-->", 4) + 3))
    ELSE SubSeq(s, 1, 1) \o WithoutComments(SubSeq(s, 2, Len(s)))
\* the non-whitespace characters of s, in order
RECURSIVE NonWhitespace(_)
NonWhitespace(s) ==
    IF s = "" THEN ""
    ELSE (IF IsSpace(SubSeq(s, 1, 1)) THEN "" ELSE SubSeq(s, 1, 1))
             \o NonWhitespace(SubSeq(s, 2, Len(s)))

\* C27: the non-whitespace characters of the output of minify_html are, in
\* order, the non-whitespace characters of the input without its comments.
C27_OnlyWhitespaceAndComments ==
    pc # "minify_html" =>
        NonWhitespace(final_html) = NonWhitespace(WithoutComments(html_text))
\* a comment and the whitespace between two tags have been removed
C27_Witness ==
    /\ pc = "done"
    /\ html_text = "<!--" \o " a " \o "-->" \o "> \n<" \o " a "
    /\ final_html = ">< a"

\* the pass has ended after the comparison of lines 145-150
ComparedAndReturned ==
    /\ pc = "returned"
    /\ stdout # <<>>
    /\ stdout[Len(stdout)] \in {"No changes needed.", "Success: CSS extracted and routes updated."}

\* C28: when the text computed by the pass differs from the text read from
\* the host file, the pass has written the computed text to the host file;
\* it does not report 'No changes needed.' while holding a different text.
C28_EveryChangePersisted ==
    ComparedAndReturned /\ new_content # file0 =>
        /\ stdout[Len(stdout)] # "No changes needed."
        /\ opened_w = 1
        /\ file = new_content

\* the nesting depth after each character of s, starting from depth d; -1
\* once a closing brace has no opening brace before it
RECURSIVE DepthAfter(_, _)
DepthAfter(s, d) ==
    IF s = "" \/ d = -1 THEN d
    ELSE LET ch == SubSeq(s, 1, 1)
         IN  DepthAfter(SubSeq(s, 2, Len(s)),
                        IF ch = "{" THEN d + 1 ELSE IF ch = "}" THEN d - 1 ELSE d)
\* every opening brace of s is closed by a later closing brace and every
\* closing brace closes an earlier opening brace
Balanced(s) == DepthAfter(s, 0) = 0

\* C29: when every extracted stylesheet has balanced braces, the emitted
\* master stylesheet has balanced braces.
C29_BraceBalance ==
    StylesheetBuilt /\ (\A k \in 1 .. Len(discovered) : Balanced(discovered[k].css)) =>
        Balanced(master_css)

\* the number of pieces of a payload of n characters, and its k-th piece
PieceCount(n) == (n + ChunkSize - 1) \div ChunkSize
Piece(s, k) == SubSeq(s, (k - 1) * ChunkSize + 1, Min({k * ChunkSize, Len(s)}))
Pieces(s) == [k \in 1 .. PieceCount(Len(s)) |-> Piece(s, k)]

\* C30: for a payload of non-zero length the injector emits raw-string
\* literals separated by single spaces and ended by one ';'; every chunk is
\* non-empty and at most ChunkSize characters long, all chunks but the last
\* are exactly ChunkSize characters long, and the chunks concatenated in
\* order are the payload.
C30_ChunksPartitionPayload ==
    pc # "chunk" /\ html_content # "" =>
        LET ps == Pieces(html_content)
        IN  /\ new_cpp_val =
                  Join(" ", [k \in 1 .. Len(ps) |-> WrapperPrefix \o ps[k] \o WrapperSuffix]) \o ";"
            /\ \A k \in 1 .. Len(ps) : Len(ps[k]) >= 1 /\ Len(ps[k]) <= ChunkSize
            /\ \A k \in 1 .. Len(ps) - 1 : Len(ps[k]) = ChunkSize
            /\ Concat(ps) = html_content
            /\ Len(new_cpp_val) =
                  Len(html_content) + Len(ps) * (Len(WrapperPrefix) + Len(WrapperSuffix)) + Len(ps)
\* a payload of two full chunks and a shorter third one has been emitted
C30_Witness ==
    /\ pc # "chunk"
    /\ Len(html_content) > 2 * ChunkSize
    /\ Len(html_content) < 3 * ChunkSize
    /\ new_cpp_val = WrapperPrefix \o SubSeq(html_content, 1, ChunkSize) \o WrapperSuffix \o " "
                     \o WrapperPrefix \o SubSeq(html_content, ChunkSize + 1, 2 * ChunkSize) \o WrapperSuffix \o " "
                     \o WrapperPrefix \o SubSeq(html_content, 2 * ChunkSize + 1, Len(html_content)) \o WrapperSuffix \o ";"

====
